---- MODULE Spec2Model ----
(***************************************************************************)
(* A model of rainfuck (src/main.rs): Program::parse builds the command    *)
(* vector and the loop table from the source bytes, Program::step executes *)
(* the command at pc against the data tape and the two byte streams, and   *)
(* Program::run_stdio drives step until it halts or faults.                *)
(* Positions (pc, ptr, loop table keys) are 0-based as in the source; the  *)
(* sequences cmds and data are read at index + 1.                          *)
(***************************************************************************)
EXTENDS Integers, Sequences, FiniteSets, TLC

VARIABLES code,    \* the source bytes handed to Program::parse
          parsed,  \* outcome of Program::parse: "none" before the call
          cmds,    \* Program.cmds
          data,    \* Program.data
          pc,      \* Program.pc
          ptr,     \* Program.ptr
          loops,   \* Program.loops
          input,   \* the bytes the input stream holds when the run starts
          cin,     \* bytes still unread on the input stream
          cout,    \* bytes written to the output stream
          ret,     \* what the latest call of step returned
          result,  \* what run_stdio returned, "none" while it loops
          prev     \* the command and registers of the latest step, before it ran

vars == <<code, parsed, cmds, data, pc, ptr, loops, input, cin, cout, ret, result, prev>>

(* ---------------------------- bounds ----------------------------------- *)
MaxLen == 2        \* longest source enumerated over the whole alphabet
MaxNest == 4       \* longest source enumerated over the bracket alphabet
MaxInput == 1      \* longest input stream
MaxChunks == 2     \* the tape is followed up to MaxChunks chunks
MaxOutput == 3     \* the output stream is followed up to MaxOutput bytes
MaxIncs == 6       \* most Increments in front of a decrement-to-zero loop
MaxComment == 2    \* longest source made of comment bytes only

(* ---------------------------- constants -------------------------------- *)
ChunkSize == 1024
CellMod == 256

ByteRight == 62
ByteLeft == 60
ByteInc == 43
ByteDec == 45
ByteOut == 46
ByteIn == 44
ByteStart == 91
ByteEnd == 93
ByteSpace == 32

(* ---------------------------- Cmd -------------------------------------- *)
Cmd == {"Right", "Left", "Inc", "Dec", "Out", "In", "Start", "End"}

from_byte_star(b) ==
    CASE b = ByteRight -> "Right"
      [] b = ByteLeft  -> "Left"
      [] b = ByteInc   -> "Inc"
      [] b = ByteInc - 1 -> "Inc"
      [] b = ByteDec   -> "Dec"
      [] b = ByteOut   -> "Out"
      [] b = ByteIn    -> "In"
      [] b = ByteStart -> "Start"
      [] b = ByteEnd   -> "End"
      [] OTHER         -> "None"

from_byte(b) ==
    CASE b = ByteRight -> "Right"
      [] b = ByteLeft  -> "Left"
      [] b = ByteInc   -> "Inc"
      [] b = ByteDec   -> "Dec"
      [] b = ByteOut   -> "Out"
      [] b = ByteIn    -> "In"
      [] b = ByteStart -> "Start"
      [] b = ByteEnd   -> "End"
      [] OTHER         -> "None"

\* code.iter().filter_map(|b| Cmd::from_byte(*b))
FilterMap(bytes) ==
    LET keep == SelectSeq(bytes, LAMBDA b : from_byte(b) # "None")
    IN  [i \in 1..Len(keep) |-> from_byte(keep[i])]

(* ---------------------------- Program::parse --------------------------- *)
EmptyMap == <<>>

PopOldest(startstack) ==
    IF startstack = <<>>
    THEN [some |-> FALSE, start |-> 0, rest |-> <<>>]
    ELSE [some |-> TRUE, start |-> Head(startstack), rest |-> Tail(startstack)]

\* startstack.pop(): the last element pushed, if any
Pop(startstack) ==
    IF startstack = <<>>
    THEN [some |-> FALSE, start |-> 0, rest |-> <<>>]
    ELSE [some |-> TRUE,
          start |-> startstack[Len(startstack)],
          rest |-> SubSeq(startstack, 1, Len(startstack) - 1)]

InsertOneWay(table, start, i) == (start :> i) @@ table

\* prog.loops.insert(start, i); prog.loops.insert(i, start)
InsertPair(table, start, i) == (i :> start) @@ ((start :> i) @@ table)

ParseEndUnchecked(pcmds, ploops, startstack) ==
    [res |-> "Ok", cmds |-> pcmds, loops |-> ploops]

\* the end of the scan: a pending [ is an error, otherwise the Program
ParseEnd(pcmds, ploops, startstack) ==
    IF startstack # <<>>
    THEN [res |-> "UnmatchedOpen", cmds |-> <<>>, loops |-> EmptyMap]
    ELSE [res |-> "Ok", cmds |-> pcmds, loops |-> ploops]

RECURSIVE ParseLoop(_, _, _, _, _)
ParseLoop(cs, i, pcmds, ploops, startstack) ==
    IF i = Len(cs)
    THEN ParseEnd(pcmds, ploops, startstack)
    ELSE LET cmd == cs[i + 1]
             pushed == Append(pcmds, cmd)
         IN  IF cmd = "Start"
             THEN ParseLoop(cs, i + 1, pushed, ploops, Append(startstack, i))
             ELSE IF cmd = "End"
             THEN LET p == Pop(startstack)
                  IN  IF p.some
                      THEN ParseLoop(cs, i + 1, pushed,
                                     InsertPair(ploops, p.start, i), p.rest)
                      ELSE [res |-> "UnmatchedClose", cmds |-> <<>>,
                            loops |-> EmptyMap]
             ELSE ParseLoop(cs, i + 1, pushed, ploops, startstack)

ParseOfRawOffsets(bytes) ==
    LET every == [i \in 1..Len(bytes) |-> from_byte(bytes[i])]
        r == ParseLoop(every, 0, <<>>, EmptyMap, <<>>)
    IN  [res |-> r.res,
         cmds |-> SelectSeq(r.cmds, LAMBDA c : c # "None"),
         loops |-> r.loops]

ParseOf(bytes) == ParseLoop(FilterMap(bytes), 0, <<>>, EmptyMap, <<>>)

ZeroCells(n) == [k \in 1..n |-> 0]

NoPrev ==
    [op |-> "none", pc |-> 0, ptr |-> 0, cell |-> 0, len |-> 0,
     cin |-> <<>>, cout |-> <<>>]

Parse ==
    /\ parsed = "none"
    /\ LET p == ParseOf(code)
       IN  /\ parsed' = p.res
           /\ cmds' = p.cmds
           /\ loops' = p.loops
           /\ data' = IF p.res = "Ok" THEN ZeroCells(ChunkSize) ELSE <<>>
    /\ pc' = 0
    /\ ptr' = 0
    /\ UNCHANGED <<code, input, cin, cout, ret, result, prev>>

(* ---------------------------- Program::step ---------------------------- *)
CmdAt(p) == cmds[p + 1]

InTape == ptr < Len(data)

\* self.data[self.ptr], read only where the index is in bounds
cell == data[ptr + 1]

set_cell_next(val) == [data EXCEPT ![ptr + 2] = val]

set_cell(val) == [data EXCEPT ![ptr + 1] = val]

saturating_add(v) == IF v + 1 >= CellMod THEN CellMod - 1 ELSE v + 1

wrapping_add(v) == (v + 1) % CellMod

wrapping_sub(v) == (v + CellMod - 1) % CellMod

RunResultRetrying(r) ==
    CASE r = "true"  -> "none"
      [] r = "false" -> "Ok"
      [] r = "err"   -> "none"
      [] OTHER       -> "panic"

\* the match arms of run_stdio's loop
RunResult(r) ==
    CASE r = "true"  -> "none"
      [] r = "false" -> "Ok"
      [] r = "err"   -> "Err"
      [] OTHER       -> "panic"

Running == parsed = "Ok" /\ result = "none"

Before(op) ==
    [op |-> op, pc |-> pc, ptr |-> ptr,
     cell |-> IF InTape THEN cell ELSE -1, len |-> Len(data),
     cin |-> cin, cout |-> cout]

\* the return paths of step: the state is left as the arm made it
Returns(r) == ret' = r /\ result' = RunResult(r)

Panics ==
    /\ Returns("panic")
    /\ UNCHANGED <<data, pc, ptr, cout>>

StepHaltRewinding ==
    /\ Running
    /\ pc >= Len(cmds)
    /\ prev' = Before("halt")
    /\ pc' = 0
    /\ Returns("false")
    /\ UNCHANGED <<code, input, parsed, cmds, data, ptr, loops, cin, cout>>

StepHalt ==
    /\ Running
    /\ pc >= Len(cmds)
    /\ prev' = Before("halt")
    /\ Returns("false")
    /\ UNCHANGED <<code, input, parsed, cmds, data, pc, ptr, loops, cin, cout>>

GrowNeededAtLast(p, len) == p = len - 1

\* if self.ptr == self.data.len() { resize }
GrowNeeded(p, len) == p = len

StepRight ==
    /\ Running
    /\ pc < Len(cmds)
    /\ CmdAt(pc) = "Right"
    /\ GrowNeeded(ptr, Len(data)) => Len(data) < MaxChunks * ChunkSize
    /\ prev' = Before("Right")
    /\ data' = IF GrowNeeded(ptr, Len(data))
               THEN data \o ZeroCells(ChunkSize)
               ELSE data
    /\ ptr' = ptr + 1
    /\ pc' = pc + 1
    /\ Returns("true")
    /\ UNCHANGED <<code, input, parsed, cmds, loops, cin, cout>>

StepLeftAdvancing ==
    /\ Running
    /\ pc < Len(cmds)
    /\ CmdAt(pc) = "Left"
    /\ prev' = Before("Left")
    /\ IF ptr = 0
       THEN /\ Returns("false")
            /\ pc' = pc + 1
            /\ UNCHANGED ptr
       ELSE /\ ptr' = ptr - 1
            /\ pc' = pc + 1
            /\ Returns("true")
    /\ UNCHANGED <<code, input, parsed, cmds, data, loops, cin, cout>>

StepLeft ==
    /\ Running
    /\ pc < Len(cmds)
    /\ CmdAt(pc) = "Left"
    /\ prev' = Before("Left")
    /\ IF ptr = 0
       THEN /\ Returns("false")
            /\ UNCHANGED <<pc, ptr>>
       ELSE /\ ptr' = ptr - 1
            /\ pc' = pc + 1
            /\ Returns("true")
    /\ UNCHANGED <<code, input, parsed, cmds, data, loops, cin, cout>>

StepIncStaying ==
    /\ Running
    /\ pc < Len(cmds)
    /\ CmdAt(pc) = "Inc"
    /\ prev' = Before("Inc")
    /\ IF InTape
       THEN /\ data' = set_cell(wrapping_add(cell))
            /\ Returns("true")
            /\ UNCHANGED <<pc, ptr, cout>>
       ELSE Panics
    /\ UNCHANGED <<code, input, parsed, cmds, loops, cin>>

StepInc ==
    /\ Running
    /\ pc < Len(cmds)
    /\ CmdAt(pc) = "Inc"
    /\ prev' = Before("Inc")
    /\ IF InTape
       THEN /\ data' = set_cell(wrapping_add(cell))
            /\ pc' = pc + 1
            /\ Returns("true")
            /\ UNCHANGED <<ptr, cout>>
       ELSE Panics
    /\ UNCHANGED <<code, input, parsed, cmds, loops, cin>>

StepDec ==
    /\ Running
    /\ pc < Len(cmds)
    /\ CmdAt(pc) = "Dec"
    /\ prev' = Before("Dec")
    /\ IF InTape
       THEN /\ data' = set_cell(wrapping_sub(cell))
            /\ pc' = pc + 1
            /\ Returns("true")
            /\ UNCHANGED <<ptr, cout>>
       ELSE Panics
    /\ UNCHANGED <<code, input, parsed, cmds, loops, cin>>

StepOutTwice ==
    /\ Running
    /\ pc < Len(cmds)
    /\ CmdAt(pc) = "Out"
    /\ Len(cout) < MaxOutput
    /\ prev' = Before("Out")
    /\ IF InTape
       THEN \E fault \in BOOLEAN :
              IF fault
              THEN /\ Returns("err")
                   /\ UNCHANGED <<data, pc, ptr, cout>>
              ELSE /\ cout' = cout \o <<cell, cell>>
                   /\ pc' = pc + 1
                   /\ Returns("true")
                   /\ UNCHANGED <<data, ptr>>
       ELSE Panics
    /\ UNCHANGED <<code, input, parsed, cmds, loops, cin>>

\* cout.write_all(&[self.cell()])?  -- the write either succeeds or faults
StepOut ==
    /\ Running
    /\ pc < Len(cmds)
    /\ CmdAt(pc) = "Out"
    /\ Len(cout) < MaxOutput
    /\ prev' = Before("Out")
    /\ IF InTape
       THEN \E fault \in BOOLEAN :
              IF fault
              THEN /\ Returns("err")
                   /\ UNCHANGED <<data, pc, ptr, cout>>
              ELSE /\ cout' = Append(cout, cell)
                   /\ pc' = pc + 1
                   /\ Returns("true")
                   /\ UNCHANGED <<data, ptr>>
       ELSE Panics
    /\ UNCHANGED <<code, input, parsed, cmds, loops, cin>>

StepInSkippingFault ==
    /\ Running
    /\ pc < Len(cmds)
    /\ CmdAt(pc) = "In"
    /\ prev' = Before("In")
    /\ \E fault \in BOOLEAN :
         IF fault
         THEN /\ pc' = pc + 1
              /\ Returns("err")
              /\ UNCHANGED <<data, ptr, cin>>
         ELSE IF cin = <<>>
         THEN /\ pc' = pc + 1
              /\ Returns("true")
              /\ UNCHANGED <<data, ptr, cin>>
         ELSE /\ cin' = Tail(cin)
              /\ IF InTape
                 THEN /\ data' = set_cell(Head(cin))
                      /\ pc' = pc + 1
                      /\ Returns("true")
                      /\ UNCHANGED ptr
                 ELSE /\ Returns("panic")
                      /\ UNCHANGED <<data, pc, ptr>>
    /\ UNCHANGED <<code, input, parsed, cmds, loops, cout>>

StepInZeroAtEof ==
    /\ Running
    /\ pc < Len(cmds)
    /\ CmdAt(pc) = "In"
    /\ prev' = Before("In")
    /\ \E fault \in BOOLEAN :
         IF fault
         THEN /\ Returns("err")
              /\ UNCHANGED <<data, pc, ptr, cin>>
         ELSE LET b == IF cin = <<>> THEN 0 ELSE Head(cin)
              IN  /\ cin' = IF cin = <<>> THEN cin ELSE Tail(cin)
                  /\ IF InTape
                     THEN /\ data' = set_cell(b)
                          /\ pc' = pc + 1
                          /\ Returns("true")
                          /\ UNCHANGED ptr
                     ELSE /\ Returns("panic")
                          /\ UNCHANGED <<data, pc, ptr>>
    /\ UNCHANGED <<code, input, parsed, cmds, loops, cout>>

\* cin.read_exact(&mut b): a byte, UnexpectedEof, or another error
StepIn ==
    /\ Running
    /\ pc < Len(cmds)
    /\ CmdAt(pc) = "In"
    /\ prev' = Before("In")
    /\ \E fault \in BOOLEAN :
         IF fault
         THEN /\ Returns("err")
              /\ UNCHANGED <<data, pc, ptr, cin>>
         ELSE IF cin = <<>>
         THEN /\ pc' = pc + 1
              /\ Returns("true")
              /\ UNCHANGED <<data, ptr, cin>>
         ELSE /\ cin' = Tail(cin)
              /\ IF InTape
                 THEN /\ data' = set_cell(Head(cin))
                      /\ pc' = pc + 1
                      /\ Returns("true")
                      /\ UNCHANGED ptr
                 ELSE /\ Returns("panic")
                      /\ UNCHANGED <<data, pc, ptr>>
    /\ UNCHANGED <<code, input, parsed, cmds, loops, cout>>

StartTargetInverted(v, p, table) == IF v # 0 THEN table[p] ELSE p

\* if self.data[self.ptr] == 0 { self.pc = self.loops[&self.pc]; }
StartTarget(v, p, table) == IF v = 0 THEN table[p] ELSE p

EndTargetInverted(v, p, table) == IF v = 0 THEN table[p] ELSE p

\* if self.data[self.ptr] != 0 { self.pc = self.loops[&self.pc]; }
EndTarget(v, p, table) == IF v # 0 THEN table[p] ELSE p

StepStart ==
    /\ Running
    /\ pc < Len(cmds)
    /\ CmdAt(pc) = "Start"
    /\ prev' = Before("Start")
    /\ IF InTape /\ (cell = 0 => pc \in DOMAIN loops)
       THEN /\ pc' = StartTarget(cell, pc, loops) + 1
            /\ Returns("true")
            /\ UNCHANGED <<data, ptr, cout>>
       ELSE Panics
    /\ UNCHANGED <<code, input, parsed, cmds, loops, cin>>

StepEnd ==
    /\ Running
    /\ pc < Len(cmds)
    /\ CmdAt(pc) = "End"
    /\ prev' = Before("End")
    /\ IF InTape /\ (cell # 0 => pc \in DOMAIN loops)
       THEN /\ pc' = EndTarget(cell, pc, loops) + 1
            /\ Returns("true")
            /\ UNCHANGED <<data, ptr, cout>>
       ELSE Panics
    /\ UNCHANGED <<code, input, parsed, cmds, loops, cin>>

(* ---------------------------- specifications --------------------------- *)
SeqsUpTo(S, n) == UNION {[1..k -> S] : k \in 0..n}

AllBytes == {ByteRight, ByteLeft, ByteInc, ByteDec, ByteOut, ByteIn,
             ByteStart, ByteEnd, ByteSpace}

NestBytes == {ByteStart, ByteEnd, ByteInc, ByteSpace}

InputBytes == {0, 65}

\* "++."  ",."  "+[-]"  "++[-]"  "+[>+]"  ">+[>>+]"  ",[.-]"
Scenarios ==
    { <<43, 43, 46>>,
      <<44, 46>>,
      <<43, 91, 45, 93>>,
      <<43, 43, 91, 45, 93>>,
      <<43, 91, 62, 43, 93>>,
      <<62, 43, 91, 62, 62, 43, 93>>,
      <<44, 91, 46, 45, 93>> }

Sources ==
    SeqsUpTo(AllBytes, MaxLen) \cup SeqsUpTo(NestBytes, MaxNest) \cup Scenarios

Inputs == SeqsUpTo(InputBytes, MaxInput)

Unparsed ==
    /\ parsed = "none"
    /\ cmds = <<>>
    /\ data = <<>>
    /\ pc = 0
    /\ ptr = 0
    /\ loops = EmptyMap
    /\ cout = <<>>
    /\ ret = "none"
    /\ result = "none"
    /\ prev = NoPrev

Init ==
    /\ code \in Sources
    /\ input \in Inputs
    /\ cin = input
    /\ Unparsed

Next ==
    \/ Parse
    \/ StepHalt
    \/ StepRight
    \/ StepLeft
    \/ StepInc
    \/ StepDec
    \/ StepOut
    \/ StepIn
    \/ StepStart
    \/ StepEnd

Spec == Init /\ [][Next]_vars

\* the parser alone, over sources rich in brackets
InitParse ==
    /\ code \in SeqsUpTo(NestBytes, MaxNest)
    /\ input = <<>>
    /\ cin = input
    /\ Unparsed

NextParse == Parse

SpecParse == InitParse /\ [][NextParse]_vars

\* the decrement-to-zero programs: n Increments, then "[-]"
Incs(n) == [k \in 1..n |-> ByteInc]

DecLoop(n) == Incs(n) \o <<ByteStart, ByteDec, ByteEnd>>

InitDecLoop ==
    /\ code \in {DecLoop(n) : n \in 0..MaxIncs}
    /\ input \in Inputs
    /\ cin = input
    /\ Unparsed

NextDecLoop ==
    \/ Parse
    \/ StepHalt
    \/ StepInc
    \/ StepDec
    \/ StepStart
    \/ StepEnd

\* run_stdio calls step again for as long as step returns Ok(true)
SpecDecLoop == InitDecLoop /\ [][NextDecLoop]_vars /\ WF_vars(NextDecLoop)

\* bytes that are no instruction: NUL, space, * / ; = ? Z \ ^ and 0xFF
CommentBytes == {0, 32, 42, 47, 59, 61, 63, 90, 92, 94, 255}

InitComment ==
    /\ code \in SeqsUpTo(CommentBytes, MaxComment)
    /\ input \in Inputs
    /\ cin = input
    /\ Unparsed

NextComment ==
    \/ Parse
    \/ StepHalt

SpecComment == InitComment /\ [][NextComment]_vars

\* step and run_stdio are pub and take &mut self: after run_stdio has
\* returned, the caller may drive the same Program again, with the input
\* stream in whatever state it then is
Rerun ==
    /\ parsed = "Ok"
    /\ result \in {"Ok", "Err"}
    /\ result' = "none"
    /\ \E waiting \in Inputs : cin' = waiting
    /\ UNCHANGED <<code, input, parsed, cmds, data, pc, ptr, loops, cout, ret, prev>>

NextRerun ==
    \/ Next
    \/ Rerun

SpecRerun == Init /\ [][NextRerun]_vars

(* ---------------------------- loop table ------------------------------ *)
Positions == 0..(Len(cmds) - 1)

Count(c, lo, hi) == Cardinality({k \in lo..hi : CmdAt(k) = c})

\* a is a LoopOpen, b a later LoopClose, and the brackets strictly between
\* them are balanced
Matches(a, b) ==
    /\ a < b
    /\ CmdAt(a) = "Start"
    /\ CmdAt(b) = "End"
    /\ Count("Start", a + 1, b - 1) = Count("End", a + 1, b - 1)
    /\ \A k \in (a + 1)..(b - 1) :
          Count("Start", a + 1, k) >= Count("End", a + 1, k)

\* C1: when parse accepts a source, the loop table maps every LoopOpen to
\* its properly nested matching LoopClose and back, and its keys are exactly
\* the LoopOpen and LoopClose positions.
JumpTableMatches ==
    parsed = "Ok" =>
        /\ DOMAIN loops = {k \in Positions : CmdAt(k) \in {"Start", "End"}}
        /\ \A a \in Positions : CmdAt(a) = "Start" =>
              \E b \in Positions : Matches(a, b)
        /\ \A b \in Positions : CmdAt(b) = "End" =>
              \E a \in Positions : Matches(a, b)
        /\ \A a, b \in Positions :
              Matches(a, b) => loops[a] = b /\ loops[b] = a

\* "[[]]" and the like: a loop nested in a loop has been resolved
NestedLoopsParsed ==
    /\ parsed = "Ok"
    /\ \E a, b \in Positions :
          /\ Matches(a, b) /\ Matches(a + 1, b - 1)
          /\ loops[a] = b /\ loops[b - 1] = a + 1

(* ---------------------------- parse errors ----------------------------- *)
CountByte(x, k) == Cardinality({j \in 1..k : code[j] = x})

\* some ] of the source has no [ pending before it
CloseBeforeOpen ==
    \E k \in 1..Len(code) :
        code[k] = ByteEnd /\ CountByte(ByteEnd, k) > CountByte(ByteStart, k)

Expected ==
    IF CloseBeforeOpen THEN "UnmatchedClose"
    ELSE IF CountByte(ByteStart, Len(code)) > CountByte(ByteEnd, Len(code))
    THEN "UnmatchedOpen"
    ELSE "Ok"

\* C2: parse fails exactly on unbalanced sources: with UnmatchedClose when
\* some ] comes while no [ is pending (whatever follows it), with
\* UnmatchedOpen when the scan ends with a [ pending, and not otherwise.
ParseErrorKinds == parsed # "none" => parsed = Expected

\* "][" has been rejected for its ], although a [ is left open after it
CloseThenOpenRejected ==
    /\ code = <<ByteEnd, ByteStart>>
    /\ parsed = "UnmatchedClose"

(* ---------------------------- step ------------------------------------- *)
\* step is about to execute command c
Executing(c) == Running /\ pc < Len(cmds) /\ CmdAt(pc) = c

\* C3: LoopOpen on a zero cell moves pc just past the matching LoopClose and
\* on a nonzero cell to the next command; LoopClose on a nonzero cell moves
\* pc to the first command of the body and on a zero cell to the next
\* command; tape and pointer stay as they were.
LoopControlFlow ==
    [][ /\ (Executing("Start") /\ InTape) =>
              /\ pc' = IF cell = 0 THEN loops[pc] + 1 ELSE pc + 1
              /\ cell = 0 => Matches(pc, pc' - 1)
              /\ data' = data /\ ptr' = ptr
        /\ (Executing("End") /\ InTape) =>
              /\ pc' = IF cell # 0 THEN loops[pc] + 1 ELSE pc + 1
              /\ cell # 0 => Matches(pc' - 1, pc)
              /\ data' = data /\ ptr' = ptr ]_vars

\* a LoopOpen on a zero cell has skipped a body that is not empty
LoopBodySkipped ==
    /\ prev.op = "Start"
    /\ prev.cell = 0
    /\ ret = "true"
    /\ pc = loops[prev.pc] + 1
    /\ pc > prev.pc + 2

\* C4: MoveRight from the last valid index grows the tape by one chunk of
\* zero cells.
GrowsAtLastIndex ==
    [][ (Executing("Right") /\ ptr = Len(data) - 1) =>
            /\ Len(data') = Len(data) + ChunkSize
            /\ \A k \in (Len(data) + 1)..Len(data') : data'[k] = 0 ]_vars

\* C5: the tape pointer is always an index of the tape and no cell access
\* is out of bounds.
PointerInTape ==
    parsed = "Ok" => (0 <= ptr /\ ptr < Len(data) /\ ret # "panic")

\* C6: Increment and Decrement replace the current cell by its successor and
\* predecessor modulo 256, and every cell stays within 0..255.
CellsWrap ==
    /\ [](\A k \in 1..Len(data) : data[k] \in 0..255)
    /\ [][/\ (Executing("Inc") /\ InTape) =>
                data' = [data EXCEPT ![ptr + 1] = IF cell = 255 THEN 0 ELSE cell + 1]
          /\ (Executing("Dec") /\ InTape) =>
                data' = [data EXCEPT ![ptr + 1] = IF cell = 0 THEN 255 ELSE cell - 1]
          /\ ((Executing("Inc") \/ Executing("Dec")) /\ InTape) => ret' = "true" ]_vars

\* an Increment has taken a cell from 255 to 0
WrappedToZero ==
    /\ prev.op = "Inc"
    /\ prev.cell = 255
    /\ ret = "true"
    /\ ptr = prev.ptr
    /\ cell = 0

\* C7: MoveLeft at pointer 0 reports halt without error and changes neither
\* pc, pointer nor tape; at a pointer above 0 it moves the pointer down by
\* one and pc up by one.
BoundaryHalt ==
    [][ Executing("Left") =>
          IF ptr = 0
          THEN /\ ret' = "false" /\ result' = "Ok"
               /\ pc' = pc /\ ptr' = ptr /\ data' = data
          ELSE /\ ptr' = ptr - 1 /\ pc' = pc + 1 /\ ret' = "true" ]_vars

\* a MoveLeft at pointer 0 has halted the run after some cell was written
HaltedAtLeftEdge ==
    /\ prev.op = "Left"
    /\ prev.ptr = 0
    /\ ret = "false"
    /\ result = "Ok"
    /\ pc = prev.pc
    /\ prev.cell # 0

\* C8: an Input that meets end-of-stream is no error: step reports continue,
\* tape and pointer are unchanged and pc moves to the next command.
InputAtEof ==
    [][ (Executing("In") /\ cin = <<>> /\ ret' # "err") =>
            /\ ret' = "true" /\ result' = "none"
            /\ data' = data /\ ptr' = ptr /\ cin' = cin
            /\ pc' = pc + 1 ]_vars

\* an Input at end-of-stream has left a nonzero cell as it was
EofKeptCell ==
    /\ prev.op = "In"
    /\ prev.cin = <<>>
    /\ ret = "true"
    /\ prev.cell # 0
    /\ cell = prev.cell
    /\ pc = prev.pc + 1

\* C9: an Input with a byte available takes exactly that byte from the
\* stream into the current cell; an Output appends exactly the current cell
\* to the output and changes neither tape nor pointer; ",." with input 0x41
\* outputs 0x41 and "++." outputs the single byte 2.
ByteIO ==
    /\ [][/\ (Executing("In") /\ cin # <<>> /\ InTape /\ ret' = "true") =>
                /\ cin' = Tail(cin)
                /\ data' = [data EXCEPT ![ptr + 1] = Head(cin)]
                /\ ptr' = ptr /\ cout' = cout
          /\ (Executing("Out") /\ ret' = "true") =>
                /\ cout' = cout \o <<cell>>
                /\ data' = data /\ ptr' = ptr /\ cin' = cin
          /\ ~(Executing("Out") /\ ret' = "true") => cout' = cout ]_vars
    /\ []((code = <<ByteIn, ByteOut>> /\ input # <<>> /\ Head(input) = 65
            /\ result = "Ok") => cout = <<65>>)
    /\ []((code = <<ByteInc, ByteInc, ByteOut>> /\ result = "Ok") => cout = <<2>>)

\* ",." has echoed the byte 0x41
EchoedByte ==
    /\ code = <<ByteIn, ByteOut>>
    /\ input = <<65>>
    /\ result = "Ok"
    /\ prev.op = "halt"
    /\ cin = <<>>
    /\ cout = <<65>>

\* C10: a fault returned by step ends run_stdio with that fault, no step
\* follows it, and the output written before it stays.
FaultsAreFatal ==
    [][ /\ ret' = "err" => (result' = "Err" /\ cout' = cout)
        /\ ((Executing("Out") \/ Executing("In")) /\ ret' = "err") =>
              (pc' = pc /\ cin' = cin)
        /\ result = "Err" => vars' = vars ]_vars

\* an Output has faulted after an earlier Output went through
FaultAfterOutput ==
    /\ prev.op = "Out"
    /\ ret = "err"
    /\ result = "Err"
    /\ cout # <<>>
    /\ cout = prev.cout

(* ---------------------------- run_stdio -------------------------------- *)
\* C11: run_stdio goes on exactly while step reports continue, ends with Ok
\* exactly when step reports halt, which step does only with pc at or past
\* the end of cmds or at a MoveLeft with the pointer at 0, and ends
\* otherwise only with an I/O fault.
RunEndsByHaltOrFault ==
    (parsed = "Ok" /\ ret # "none") =>
        /\ result = "none" <=> ret = "true"
        /\ result = "Ok" <=> ret = "false"
        /\ ret = "false" =>
              \/ prev.op = "halt" /\ prev.pc >= Len(cmds) /\ pc = prev.pc
              \/ prev.op = "Left" /\ prev.ptr = 0 /\ ptr = 0
        /\ result \notin {"none", "Ok"} => (result = "Err" /\ ret = "err")

\* C12: n Increments followed by "[-]" eventually halt normally with the
\* current cell 0, the pointer 0 and pc = n + 3, just past the ].
DecLoopHalts ==
    <>(/\ result = "Ok"
       /\ prev.op = "halt"
       /\ \E n \in 0..MaxIncs : code = DecLoop(n) /\ pc = n + 3
       /\ ptr = 0
       /\ data[1] = 0)

\* "+[-]" has halted with its cell back at 0 and pc = 4
PlusDecLoopHalted ==
    /\ code = <<ByteInc, ByteStart, ByteDec, ByteEnd>>
    /\ result = "Ok"
    /\ prev.op = "halt"
    /\ pc = 4
    /\ ptr = 0
    /\ data[1] = 0

(* ---------------------------- comments --------------------------------- *)
InstructionBytes == {62, 60, 43, 45, 46, 44, 91, 93}

CommentOnly(bytes) == \A j \in 1..Len(bytes) : bytes[j] \notin InstructionBytes

\* C13: a source without any instruction byte parses to an empty Program
\* with an empty loop table, and its first step reports halt with the tape
\* still 1024 zero cells, pointer and pc 0, no input read, no output written.
CommentsRunNothing ==
    CommentOnly(code) =>
        /\ parsed # "none" =>
              /\ parsed = "Ok"
              /\ cmds = <<>>
              /\ DOMAIN loops = {}
              /\ Len(data) = 1024
              /\ \A k \in 1..Len(data) : data[k] = 0
              /\ ptr = 0 /\ pc = 0
              /\ cin = input /\ cout = <<>>
        /\ ret # "none" => (ret = "false" /\ result = "Ok")

\* a source of two comment bytes has been run with input waiting
CommentSourceHalted ==
    /\ Len(code) = 2
    /\ CommentOnly(code)
    /\ input # <<>>
    /\ ret = "false"
    /\ prev.op = "halt"
    /\ cmds = <<>>
    /\ Len(data) = 1024

(* ---------------------------- tape ------------------------------------- *)
\* C14: the tape starts as 1024 zero cells; its length changes only at a
\* MoveRight executed with the pointer equal to the length, which appends
\* 1024 zero cells and keeps the existing ones; so the length never
\* decreases and is always a positive multiple of 1024.
TapeLengthEvolution ==
    /\ [](parsed = "Ok" => (Len(data) > 0 /\ Len(data) % 1024 = 0))
    /\ [][/\ (parsed = "none" /\ parsed' = "Ok") =>
                (Len(data') = 1024 /\ \A k \in 1..1024 : data'[k] = 0)
          /\ parsed = "Ok" =>
                IF Executing("Right") /\ ptr = Len(data)
                THEN /\ Len(data') = Len(data) + 1024
                     /\ SubSeq(data', 1, Len(data)) = data
                     /\ \A k \in (Len(data) + 1)..Len(data') : data'[k] = 0
                ELSE Len(data') = Len(data) ]_vars

\* a MoveRight with the pointer at the tape length has added a chunk to a
\* tape that holds nonzero cells
TapeHasGrown ==
    /\ prev.op = "Right"
    /\ prev.ptr = prev.len
    /\ ret = "true"
    /\ Len(data) = prev.len + 1024
    /\ ptr = prev.ptr + 1
    /\ \E k \in 1..prev.len : data[k] # 0

(* ---------------------------- program counter -------------------------- *)
\* C15: pc stays within 0..length of cmds, and whenever the command at pc is
\* a LoopOpen or LoopClose the loop table has an entry for pc that is a
\* position of cmds, so no lookup of step fails.
LookupNeverFails ==
    parsed = "Ok" =>
        /\ 0 <= pc /\ pc <= Len(cmds)
        /\ (pc < Len(cmds) /\ CmdAt(pc) \in {"Start", "End"}) =>
              (pc \in DOMAIN loops /\ loops[pc] \in Positions)
        /\ ret = "panic" => prev.ptr >= prev.len

\* a LoopClose on a nonzero cell has looked its LoopOpen up and jumped back
JumpedBack ==
    /\ prev.op = "End"
    /\ prev.cell > 0
    /\ ret = "true"
    /\ pc = loops[prev.pc] + 1
    /\ pc < prev.pc

(* ---------------------------- filtered positions ----------------------- *)
Strip(bytes) == SelectSeq(bytes, LAMBDA b : b \in InstructionBytes)

\* C16: parsing a source gives the same outcome, commands and loop table as
\* parsing the source without its non-instruction bytes; the keys and values
\* of the loop table are positions of the filtered command sequence.
ParseIgnoresComments ==
    parsed # "none" =>
        /\ LET q == ParseOf(Strip(code))
           IN  parsed = q.res /\ cmds = q.cmds /\ loops = q.loops
        /\ Len(cmds) <= Len(Strip(code))
        /\ \A k \in DOMAIN loops : k \in Positions /\ loops[k] \in Positions

\* a loop behind a leading comment byte sits at filtered position 0
LoopBehindComment ==
    /\ parsed = "Ok"
    /\ Len(code) > Len(cmds)
    /\ code[1] = ByteSpace
    /\ 0 \in DOMAIN loops
    /\ loops[0] = Len(cmds) - 1
    /\ Len(cmds) > 2

(* ---------------------------- frame ------------------------------------ *)
\* C17: Increment, Decrement and Input change at most the cell at the
\* pointer and not the pointer; MoveRight and MoveLeft change no existing
\* cell; Output, LoopOpen and LoopClose change neither tape nor pointer; no
\* step changes the commands or the loop table.
StepFrame ==
    [][ parsed = "Ok" =>
          /\ cmds' = cmds /\ loops' = loops
          /\ (Executing("Inc") \/ Executing("Dec") \/ Executing("In")) =>
                /\ ptr' = ptr
                /\ Len(data') = Len(data)
                /\ \A k \in 1..Len(data) : k # ptr + 1 => data'[k] = data[k]
          /\ (Executing("Right") \/ Executing("Left")) =>
                \A k \in 1..Len(data) : data'[k] = data[k]
          /\ (Executing("Out") \/ Executing("Start") \/ Executing("End")) =>
                (data' = data /\ ptr' = ptr) ]_vars

\* an Increment has changed its cell next to other nonzero cells
IncrementedAmongCells ==
    /\ prev.op = "Inc"
    /\ ret = "true"
    /\ ptr = prev.ptr
    /\ cell # prev.cell
    /\ \E k \in 1..Len(data) : k # ptr + 1 /\ data[k] # 0

(* ---------------------------- counter advance -------------------------- *)
LoopFree == \A k \in Positions : CmdAt(k) \notin {"Start", "End"}

\* C18: a step that returns continue at MoveRight, MoveLeft, Increment,
\* Decrement, Output or Input sets pc to pc + 1; so in a program without
\* LoopOpen and LoopClose pc never goes back and every continuing step
\* moves it on to the next command.
CounterAdvances ==
    [][/\ \A c \in {"Right", "Left", "Inc", "Dec", "Out", "In"} :
            (Executing(c) /\ ret' = "true") => pc' = pc + 1
       /\ (Running /\ LoopFree) =>
            /\ pc' >= pc
            /\ ret' = "true" => pc' = pc + 1 ]_vars

\* the second command of a loop-free program, an Output, has been passed
SecondCommandPassed ==
    /\ parsed = "Ok"
    /\ LoopFree
    /\ prev.op = "Out"
    /\ prev.pc = 1
    /\ ret = "true"
    /\ pc = 2

(* ---------------------------- faulted step ----------------------------- *)
\* C19: a step that returns an I/O fault leaves pc, the pointer and every
\* cell as they were, and pc still designates the faulted Output or Input.
FaultChangesNothing ==
    [][ (Running /\ ret' = "err") =>
          /\ pc' = pc /\ ptr' = ptr /\ data' = data
          /\ pc' < Len(cmds')
          /\ cmds'[pc' + 1] \in {"Out", "In"}
          /\ cmds'[pc' + 1] = prev'.op ]_vars

\* an Input has faulted with a byte waiting and a nonzero cell under it
InputFaulted ==
    /\ prev.op = "In"
    /\ ret = "err"
    /\ pc = prev.pc
    /\ pc > 0
    /\ CmdAt(pc) = "In"
    /\ cin # <<>>
    /\ prev.cell > 0
    /\ cell = prev.cell

(* ---------------------------- stable halt ------------------------------ *)
\* C20: once step has reported halt, every later call of step reports halt
\* again, whatever the streams hold, and changes neither pc, pointer, tape
\* nor output and reads no input.
HaltIsStable ==
    [][ (Running /\ ret = "false") =>
          /\ ret' = "false"
          /\ pc' = pc /\ ptr' = ptr /\ data' = data
          /\ cout' = cout /\ cin' = cin ]_vars

\* "+<" has halted at the left edge, and a later step, called with input
\* that arrived after the halt, has halted there again
HaltedAgain ==
    /\ code = <<ByteInc, ByteLeft>>
    /\ input = <<>>
    /\ prev.op = "Left"
    /\ prev.cin # <<>>
    /\ cin = prev.cin
    /\ ret = "false"
    /\ result = "Ok"
    /\ pc = 1
    /\ cell = 1

====
